---- MODULE Spec2Model ----
(***************************************************************************)
(* A model of koit's storage backends (src/src/backend.rs): the in-memory  *)
(* backend Memory, the open-handle backend File and the path backend       *)
(* FilePath, over a small POSIX-like filesystem (directory entries, inodes, *)
(* open handles with a cursor).  Every await of the code is one step.      *)
(***************************************************************************)
EXTENDS Naturals, Sequences, FiniteSets, TLC

\* ------------------------------------------------------------------ bounds
MaxLen == 2
NActors == 2

\* The code never looks at a byte's value: two values tell any two buffers apart.
\* 0 is also the byte that fills a gap past the end of a file.
Byte == {0, 1}
Bufs == UNION {[1..n -> Byte] : n \in 0..MaxLen}
Actors == 1..NActors
Inodes == 1..(NActors + 2)
NoIno == 0

VARIABLES
    dir,      \* path -> inode (NoIno: no such file)
    disk,     \* inode -> content
    synced,   \* inodes whose content has been forced to stable storage
    kind,     \* actor -> "Memory" | "File" | "FilePath" | "none"
    serial,   \* TRUE: the callers never overlap two operations
    may,      \* actor -> the operations its caller invokes
    pc,       \* actor -> position in its constructor or operation
    mem,      \* Memory.0
    h,        \* File.0, or the handle f local to a FilePath operation
    data,     \* the argument of the write in progress
    off,      \* bytes of data that write_all has written so far
    buffer,   \* the buffer read_to_end fills
    ret,      \* actor -> the result of its last call, once it has returned ("rets" recorded),
              \* or just the result of the call that returned last and no call has begun since
    faulty,   \* TRUE: a system call may fail with an error of the operating system
    track,    \* the history variables the specification records
    last,     \* history: buffer of the instance's last successful write, or its initial content
    snap,     \* history: what was observable after the write that returned success last
    idem,     \* history: did a repeated write(B) leave what the first left
    pre,      \* history: the target and the temporary file when the call in progress began,
              \* and whether it renamed
    ctor,     \* history: the outcome of the constructor's first open, and whether it tried to create
    cand,     \* history: the complete contents the read in progress may return (fixed when
              \* it opens the target), and whether the last read returned something else
    pathBuf,  \* history: the buffer of the last successful write while no write has begun since,
              \* whether its handle was stale, the instances constructed since that have not
              \* finished an operation, and whether the first read of one returned another buffer
    nops      \* history: operations the instance has begun since its construction (capped at 2)

fsVars == <<dir, disk, synced>>
cfgVars == <<kind, serial, may, faulty, track>>
vars == <<dir, disk, synced, kind, serial, may, faulty, track, pc, mem, h, data, off, buffer, ret,
          last, snap, idem, pre, ctor, cand, pathBuf, nops>>

\* ------------------------------------------------------------- filesystem
Target == <<"db">>

\* A faulty variant: the buffer is written to the path itself.
TmpNameSame(path) == path

TmpName(path) == Append(path, ".tmp")

Paths == {Target, TmpName(Target)}

NoHandle == [ino |-> NoIno, pos |-> 0]

Refs(d, hh) == ({d[p] : p \in Paths} \cup {hh[a].ino : a \in Actors}) \ {NoIno}

FreeIno(d, hh) == CHOOSE i \in Inodes : i \notin Refs(d, hh) /\ \A j \in Inodes : j \notin Refs(d, hh) => i <= j

\* An inode no name and no handle refers to is freed.
Reclaim(dk, d, hh) == [i \in Inodes |-> IF i \in Refs(d, hh) THEN dk[i] ELSE <<>>]

Exists(path) == dir[path] # NoIno

Content(path) == disk[dir[path]]

\* OpenOptions::open: the handle's inode, the error, and the directory and disk after it.
Open(path, create, truncate) ==
    IF dir[path] # NoIno
    THEN [err |-> "", ino |-> dir[path], dir |-> dir,
          disk |-> IF truncate THEN [disk EXCEPT ![dir[path]] = <<>>] ELSE disk]
    ELSE IF create
         THEN LET i == FreeIno(dir, h)
              IN [err |-> "", ino |-> i, dir |-> [dir EXCEPT ![path] = i],
                  disk |-> [disk EXCEPT ![i] = <<>>]]
         ELSE [err |-> "NotFound", ino |-> NoIno, dir |-> dir, disk |-> disk]

\* write(2) of bs at offset pos: a gap past the end is filled with zeros.
WriteAt(c, pos, bs) ==
    LET base == IF Len(c) < pos THEN c \o [i \in 1..(pos - Len(c)) |-> 0] ELSE c
        end == pos + Len(bs)
        n == IF Len(base) > end THEN Len(base) ELSE end
    IN [i \in 1..n |-> IF i > pos /\ i <= end THEN bs[i - pos] ELSE base[i]]

\* A faulty variant: the cursor stays where the last operation left it.
SeekKeep(hd) == hd

SeekStart(hd) == [hd EXCEPT !.pos = 0]

\* A faulty variant: the file is not truncated.
SetLenKeep(c) == c

SetLen0(c) == <<>>

\* A faulty variant: the sync returns without forcing anything to stable storage.
SyncNone(s, i) == s

\* sync_all(): the content of file i is on stable storage.
SyncAll(s, i) == s \cup {i}

\* A faulty variant: the source name is left behind.
RenameCopy(d, from, to) == [d EXCEPT ![to] = d[from]]

Rename(d, from, to) == [d EXCEPT ![to] = d[from], ![from] = NoIno]

\* ---------------------------------------------------------------- results
Ret(op, ok, err, val, flag) == [op |-> op, ok |-> ok, err |-> err, val |-> val, flag |-> flag]

NoRet == Ret("none", TRUE, "", <<>>, FALSE)

NoSnap == [valid |-> FALSE, data |-> <<>>, obs |-> <<>>]

NoOrphan == [there |-> FALSE, content |-> <<>>]

NoPre == [exists |-> FALSE, content |-> <<>>, renamed |-> FALSE, orphan |-> NoOrphan]

NoCtor == [first |-> "none", create |-> FALSE]

NoCand == [set |-> {}, torn |-> FALSE]

NoPathBuf == [known |-> FALSE, buf |-> <<>>, stale |-> FALSE, fresh |-> {}, verdict |-> "none"]

\* The errors a system call may return besides those the filesystem's state decides.
Errs == IF faulty THEN {"", "Other"} ELSE {""}

Quiet(a) == pc[a] \in {"new", "idle"}

\* A caller that serialises its operations starts one only when no other is in flight.
\* A caller that is given one call ("once") makes no second one.
CanStart(a) ==
    /\ serial => \A b \in Actors \ {a} : Quiet(b)
    /\ "once" \in may[a] => nops[a] = 0

PreNow == [exists |-> Exists(Target), content |-> IF Exists(Target) THEN Content(Target) ELSE <<>>,
           renamed |-> FALSE,
           orphan |-> IF "orphan" \in track /\ Exists(TmpName(Target))
                      THEN [there |-> TRUE, content |-> Content(TmpName(Target))]
                      ELSE NoOrphan]

\* What a read() of instance a would return, and the files on disk.
Observable(a, m, d, dk, hh) ==
    IF kind[a] = "Memory" THEN <<m[a], {}>>
    ELSE IF kind[a] = "File" THEN <<dk[hh[a].ino], {}>>
    ELSE <<IF d[Target] # NoIno THEN dk[d[Target]] ELSE <<>>, {p \in Paths : d[p] # NoIno}>>

\* A history variable changes only under a specification that records it.
Tr(name, new, old) == IF name \in track THEN new ELSE old

\* A call of actor a returns r; the locals of the call are gone.
Returns(a, r) ==
    /\ ret' = IF "rets" \in track THEN [ret EXCEPT ![a] = r]
              ELSE [x \in Actors |-> IF x = a THEN r ELSE NoRet]
    /\ data' = [data EXCEPT ![a] = <<>>]
    /\ off' = [off EXCEPT ![a] = 0]
    /\ buffer' = [buffer EXCEPT ![a] = <<>>]

Fails(a, op, err) == Returns(a, Ret(op, FALSE, err, <<>>, FALSE))

\* A call of actor a goes on to its next system call.
GoesOn(a) ==
    /\ ret' = IF "rets" \in track THEN [ret EXCEPT ![a] = NoRet] ELSE [x \in Actors |-> NoRet]

\* An operation of actor a begins.
Begins(a) ==
    /\ nops' = Tr("nops", [nops EXCEPT ![a] = IF @ < 2 THEN @ + 1 ELSE @], nops)
    /\ pre' = Tr("pre", [pre EXCEPT ![a] = PreNow], pre)
    /\ ctor' = [ctor EXCEPT ![a] = NoCtor]

\* A constructor of actor a returns an instance whose medium holds initial.
Constructed(a, initial) ==
    /\ pc' = [pc EXCEPT ![a] = "idle"]
    /\ last' = Tr("last", [last EXCEPT ![a] = initial], last)
    /\ nops' = [nops EXCEPT ![a] = 0]
    /\ pathBuf' = Tr("pathBuf", [pathBuf EXCEPT !.fresh = @ \cup {a}], pathBuf)

\* The history of a write(b) of actor a that returns success.
Wrote(a, b, m, d, dk, hh) ==
    /\ Returns(a, Ret("write", TRUE, "", b, FALSE))
    /\ last' = Tr("last", [last EXCEPT ![a] = b], last)
    /\ snap' = Tr("snap", [snap EXCEPT ![a] = [valid |-> TRUE, data |-> b,
                                                obs |-> Observable(a, m, d, dk, hh)]], snap)
    /\ idem' = Tr("snap", [idem EXCEPT ![a] =
                  IF snap[a].valid /\ snap[a].data = b
                  THEN IF Observable(a, m, d, dk, hh) = snap[a].obs THEN "same" ELSE "differs"
                  ELSE "none"], idem)

\* The history of a write of actor a that returns an error.
WriteFails(a, err) ==
    /\ Returns(a, Ret("write", FALSE, err, data[a], FALSE))
    /\ snap' = [snap EXCEPT ![a] = NoSnap]
    /\ UNCHANGED <<last, idem>>

\* The history when an operation other than write begins.
NotAWrite(a) ==
    /\ snap' = [snap EXCEPT ![a] = NoSnap]
    /\ idem' = [idem EXCEPT ![a] = "none"]

\* The history of a write(b) that returns success; stale: its handle is on a file the
\* path names no more.
PathWrote(b, stale) ==
    Tr("pathBuf", [known |-> TRUE, buf |-> b, stale |-> stale, fresh |-> {}, verdict |-> "none"], pathBuf)

\* The history of a read of actor a that returns (ok: with the buffer val).
PathRead(a, ok, val) ==
    Tr("pathBuf",
       [pathBuf EXCEPT !.fresh = @ \ {a},
                       !.verdict = IF ok /\ a \in pathBuf.fresh /\ pathBuf.known
                                   THEN IF val = pathBuf.buf
                                        THEN IF @ = "none" THEN "same" ELSE @
                                        ELSE IF pathBuf.stale THEN "differs_stale" ELSE "differs"
                                   ELSE @],
       pathBuf)

\* ----------------------------------------------------------------- Memory
\* A faulty variant: the buffer is appended.
MemoryStoreAppend(old, b) == old \o b

MemoryStore(old, b) == b

MemoryNew(a) ==
    /\ kind[a] = "Memory" /\ pc[a] = "new" /\ CanStart(a)
    /\ mem' = [mem EXCEPT ![a] = <<>>]
    /\ Returns(a, Ret("new", TRUE, "", <<>>, FALSE))
    /\ Constructed(a, <<>>)
    /\ UNCHANGED <<fsVars, cfgVars, h, snap, idem, pre, ctor, cand>>

MemoryFrom(a, buf) ==
    /\ kind[a] = "Memory" /\ pc[a] = "new" /\ CanStart(a)
    /\ mem' = [mem EXCEPT ![a] = buf]
    /\ Returns(a, Ret("from", TRUE, "", <<>>, FALSE))
    /\ Constructed(a, buf)
    /\ UNCHANGED <<fsVars, cfgVars, h, snap, idem, pre, ctor, cand>>

\* A faulty variant: take() hands out a copy.
MemoryLeftKeep(old) == old

\* std::mem::replace(&mut self.0, Vec::new()): what is left in the backend.
MemoryLeft(old) == <<>>

MemoryTake(a) ==
    /\ kind[a] = "Memory" /\ pc[a] = "idle" /\ CanStart(a) /\ "take" \in may[a]
    /\ mem' = [mem EXCEPT ![a] = MemoryLeft(@)]
    /\ Returns(a, Ret("take", TRUE, "", mem[a], FALSE))
    /\ Begins(a)
    /\ NotAWrite(a)
    /\ last' = [last EXCEPT ![a] = <<>>]
    /\ UNCHANGED <<fsVars, cfgVars, pc, h, cand, pathBuf>>

MemoryRead(a) ==
    /\ kind[a] = "Memory" /\ pc[a] = "idle" /\ CanStart(a) /\ "read" \in may[a]
    /\ Returns(a, Ret("read", TRUE, "", mem[a], FALSE))
    /\ Begins(a)
    /\ NotAWrite(a)
    /\ UNCHANGED <<fsVars, cfgVars, pc, mem, h, last, cand, pathBuf>>

MemoryWrite(a, b) ==
    /\ kind[a] = "Memory" /\ pc[a] = "idle" /\ CanStart(a) /\ "write" \in may[a]
    /\ mem' = [mem EXCEPT ![a] = MemoryStore(mem[a], b)]
    /\ Wrote(a, b, mem', dir, disk, h)
    /\ Begins(a)
    /\ UNCHANGED <<fsVars, cfgVars, pc, h, cand, pathBuf>>

\* ------------------------------------------------------------------- File
FileFromPath(a, e) ==
    /\ kind[a] = "File" /\ pc[a] = "new" /\ CanStart(a) /\ "from_path" \in may[a]
    /\ LET o == Open(Target, FALSE, FALSE)
           err == IF e # "" THEN e ELSE o.err
       IN IF err = ""
          THEN /\ h' = [h EXCEPT ![a] = [ino |-> o.ino, pos |-> 0]]
               /\ Returns(a, Ret("from_path", TRUE, "", <<>>, FALSE))
               /\ Constructed(a, disk[o.ino])
          ELSE /\ Fails(a, "from_path", err)
               /\ UNCHANGED <<h, pc, last, nops, pathBuf>>
    /\ pre' = Tr("pre", [pre EXCEPT ![a] = PreNow], pre)
    /\ ctor' = [ctor EXCEPT ![a] = NoCtor]
    /\ UNCHANGED <<fsVars, cfgVars, mem, snap, idem, cand>>

\* match err.kind() { NotFound => create, _ => Err(err) }
FileCreatesOn(err) == err = "NotFound"

FileOrCreateOpen(a, e) ==
    /\ kind[a] = "File" /\ pc[a] = "new" /\ CanStart(a) /\ "or_create" \in may[a]
    /\ LET o == Open(Target, FALSE, FALSE)
           err == IF e # "" THEN e ELSE o.err
       IN /\ IF err = ""
             THEN /\ h' = [h EXCEPT ![a] = [ino |-> o.ino, pos |-> 0]]
                  /\ Returns(a, Ret("from_path_or_create", TRUE, "", <<>>, TRUE))
                  /\ Constructed(a, disk[o.ino])
             ELSE IF FileCreatesOn(err)
             THEN /\ pc' = [pc EXCEPT ![a] = "f_create"]
                  /\ GoesOn(a)
                  /\ UNCHANGED <<h, last, nops, data, off, buffer, pathBuf>>
             ELSE /\ Fails(a, "from_path_or_create", err)
                  /\ UNCHANGED <<h, pc, last, nops, pathBuf>>
          /\ ctor' = Tr("ctor", [ctor EXCEPT ![a] = [first |-> err, create |-> FALSE]], ctor)
    /\ pre' = Tr("pre", [pre EXCEPT ![a] = PreNow], pre)
    /\ UNCHANGED <<fsVars, cfgVars, mem, snap, idem, cand>>

FileOrCreateCreate(a, e) ==
    /\ kind[a] = "File" /\ pc[a] = "f_create"
    /\ LET o == Open(Target, TRUE, FALSE)
       IN IF e = ""
          THEN /\ h' = [h EXCEPT ![a] = [ino |-> o.ino, pos |-> 0]]
               /\ dir' = o.dir
               /\ disk' = o.disk
               /\ Returns(a, Ret("from_path_or_create", TRUE, "", <<>>, FALSE))
               /\ Constructed(a, o.disk[o.ino])
          ELSE /\ Fails(a, "from_path_or_create", e)
               /\ pc' = [pc EXCEPT ![a] = "new"]
               /\ UNCHANGED <<h, dir, disk, last, nops, pathBuf>>
    /\ ctor' = Tr("ctor", [ctor EXCEPT ![a].create = TRUE], ctor)
    /\ UNCHANGED <<synced, cfgVars, mem, snap, idem, pre, cand>>

\* The instance is discarded, and with it what is known of it.
Forgotten(a) ==
    /\ pc' = [pc EXCEPT ![a] = "new"]
    /\ ret' = [ret EXCEPT ![a] = NoRet]
    /\ last' = [last EXCEPT ![a] = <<>>]
    /\ snap' = [snap EXCEPT ![a] = NoSnap]
    /\ idem' = [idem EXCEPT ![a] = "none"]
    /\ pre' = [pre EXCEPT ![a] = NoPre]
    /\ ctor' = [ctor EXCEPT ![a] = NoCtor]
    /\ cand' = [cand EXCEPT ![a] = NoCand]
    /\ nops' = [nops EXCEPT ![a] = 0]
    /\ pathBuf' = [pathBuf EXCEPT !.fresh = @ \ {a}]

\* The File is discarded: its handle is closed.
FileDrop(a) ==
    /\ kind[a] = "File" /\ pc[a] = "idle" /\ CanStart(a) /\ "drop" \in may[a]
    /\ h' = [h EXCEPT ![a] = NoHandle]
    /\ disk' = Reclaim(disk, dir, h')
    /\ synced' = Tr("synced", synced \cap Refs(dir, h'), synced)
    /\ Forgotten(a)
    /\ UNCHANGED <<dir, cfgVars, mem, data, off, buffer>>

FileReadSeek(a, e) ==
    /\ kind[a] = "File" /\ pc[a] = "idle" /\ CanStart(a) /\ "read" \in may[a]
    /\ IF e = ""
       THEN /\ h' = [h EXCEPT ![a] = SeekStart(@)]
            /\ pc' = [pc EXCEPT ![a] = "f_read"]
            /\ GoesOn(a)
            /\ UNCHANGED <<data, off, buffer>>
       ELSE /\ Fails(a, "read", e)
            /\ UNCHANGED <<h, pc>>
    /\ pathBuf' = IF e = "" THEN pathBuf ELSE PathRead(a, FALSE, <<>>)
    /\ Begins(a)
    /\ NotAWrite(a)
    /\ UNCHANGED <<fsVars, cfgVars, mem, last, cand>>

\* A faulty variant: one byte is transferred whatever the count.
ChunkShort(c, pos, n) == SubSeq(c, pos + 1, pos + 1)

\* The n bytes of c from offset pos: what a read(2) returns, what a write(2) takes.
Chunk(c, pos, n) == SubSeq(c, pos + 1, pos + n)

Left(c, pos) == IF Len(c) > pos THEN Len(c) - pos ELSE 0

\* One read(2) of read_to_end: some of the bytes left, or none at the end of the file.
FileReadToEnd(a, e) ==
    /\ kind[a] = "File" /\ pc[a] = "f_read"
    /\ LET c == disk[h[a].ino]
           left == Left(c, h[a].pos)
       IN IF e # "" \/ left = 0
          THEN /\ Returns(a, IF e # "" THEN Ret("read", FALSE, e, <<>>, FALSE)
                             ELSE Ret("read", TRUE, "", buffer[a], FALSE))
               /\ pc' = [pc EXCEPT ![a] = "idle"]
               /\ pathBuf' = PathRead(a, e = "", buffer[a])
               /\ UNCHANGED h
          ELSE \E n \in 1..left :
               /\ buffer' = [buffer EXCEPT ![a] = @ \o Chunk(c, h[a].pos, n)]
               /\ h' = [h EXCEPT ![a].pos = @ + n]
               /\ UNCHANGED <<ret, pc, data, off, pathBuf>>
    /\ UNCHANGED <<fsVars, cfgVars, mem, last, snap, idem, pre, ctor, cand, nops>>

FileWriteSeek(a, b, e) ==
    /\ kind[a] = "File" /\ pc[a] = "idle" /\ CanStart(a) /\ "write" \in may[a]
    /\ IF e = ""
       THEN /\ h' = [h EXCEPT ![a] = SeekStart(@)]
            /\ pc' = [pc EXCEPT ![a] = "f_setlen"]
            /\ data' = [data EXCEPT ![a] = b]
            /\ GoesOn(a)
            /\ UNCHANGED <<off, buffer, snap, last>>
       ELSE /\ WriteFails(a, e)
            /\ UNCHANGED <<h, pc>>
    /\ idem' = [idem EXCEPT ![a] = "none"]
    /\ Begins(a)
    /\ pathBuf' = NoPathBuf
    /\ UNCHANGED <<fsVars, cfgVars, mem, cand>>

FileWriteSetLen(a, e) ==
    /\ kind[a] = "File" /\ pc[a] = "f_setlen"
    /\ IF e = ""
       THEN /\ disk' = [disk EXCEPT ![h[a].ino] = SetLen0(@)]
            /\ synced' = Tr("synced", synced \ {h[a].ino}, synced)
            /\ pc' = [pc EXCEPT ![a] = IF Len(data[a]) = 0 THEN "f_sync" ELSE "f_write"]
            /\ UNCHANGED <<ret, data, off, buffer, last, snap, idem>>
       ELSE /\ WriteFails(a, e)
            /\ pc' = [pc EXCEPT ![a] = "idle"]
            /\ UNCHANGED <<disk, synced>>
    /\ UNCHANGED <<dir, cfgVars, mem, h, pre, ctor, cand, pathBuf, nops>>

\* One write(2) of write_all: some of the bytes of data not yet written.
FileWriteAll(a, e) ==
    /\ kind[a] = "File" /\ pc[a] = "f_write"
    /\ IF e = ""
       THEN \E n \in 1..(Len(data[a]) - off[a]) :
            /\ disk' = [disk EXCEPT ![h[a].ino] = WriteAt(@, h[a].pos, Chunk(data[a], off[a], n))]
            /\ synced' = Tr("synced", synced \ {h[a].ino}, synced)
            /\ h' = [h EXCEPT ![a].pos = @ + n]
            /\ off' = [off EXCEPT ![a] = @ + n]
            /\ pc' = [pc EXCEPT ![a] = IF off[a] + n = Len(data[a]) THEN "f_sync" ELSE "f_write"]
            /\ UNCHANGED <<ret, data, buffer, last, snap, idem>>
       ELSE /\ WriteFails(a, e)
            /\ pc' = [pc EXCEPT ![a] = "idle"]
            /\ UNCHANGED <<disk, synced, h>>
    /\ UNCHANGED <<dir, cfgVars, mem, pre, ctor, cand, pathBuf, nops>>

FileWriteSync(a, e) ==
    /\ kind[a] = "File" /\ pc[a] = "f_sync"
    /\ IF e = ""
       THEN /\ synced' = Tr("synced", SyncAll(synced, h[a].ino), synced)
            /\ Wrote(a, data[a], mem, dir, disk, h)
            /\ pathBuf' = PathWrote(data[a], h[a].ino # dir[Target])
            /\ pre' = [pre EXCEPT ![a] = NoPre]
       ELSE /\ WriteFails(a, e)
            /\ UNCHANGED <<synced, pathBuf, pre>>
    /\ pc' = [pc EXCEPT ![a] = "idle"]
    /\ UNCHANGED <<dir, disk, cfgVars, mem, h, ctor, cand, nops>>

\* --------------------------------------------------------------- FilePath
FilePathFromPath(a, e) ==
    /\ kind[a] = "FilePath" /\ pc[a] = "new" /\ CanStart(a) /\ "from_path" \in may[a]
    /\ LET o == Open(Target, FALSE, FALSE)
           err == IF e # "" THEN e ELSE o.err
       IN IF err = ""
          THEN /\ Returns(a, Ret("from_path", TRUE, "", <<>>, FALSE))
               /\ Constructed(a, disk[o.ino])
          ELSE /\ Fails(a, "from_path", err)
               /\ UNCHANGED <<pc, last, nops, pathBuf>>
    /\ pre' = Tr("pre", [pre EXCEPT ![a] = PreNow], pre)
    /\ ctor' = [ctor EXCEPT ![a] = NoCtor]
    /\ UNCHANGED <<fsVars, cfgVars, mem, h, snap, idem, cand>>

\* let exists = f.is_ok(); if !exists { create }
FilePathCreatesOn(err) == err # ""

FilePathOrCreateOpen(a, e) ==
    /\ kind[a] = "FilePath" /\ pc[a] = "new" /\ CanStart(a) /\ "or_create" \in may[a]
    /\ LET o == Open(Target, FALSE, FALSE)
           err == IF e # "" THEN e ELSE o.err
       IN /\ IF err = ""
             THEN /\ Returns(a, Ret("from_path_or_create", TRUE, "", <<>>, TRUE))
                  /\ Constructed(a, disk[o.ino])
             ELSE IF FilePathCreatesOn(err)
             THEN /\ pc' = [pc EXCEPT ![a] = "p_create"]
                  /\ GoesOn(a)
                  /\ UNCHANGED <<last, nops, data, off, buffer, pathBuf>>
             ELSE /\ Fails(a, "from_path_or_create", err)
                  /\ UNCHANGED <<pc, last, nops, pathBuf>>
          /\ ctor' = Tr("ctor", [ctor EXCEPT ![a] = [first |-> err, create |-> FALSE]], ctor)
    /\ pre' = Tr("pre", [pre EXCEPT ![a] = PreNow], pre)
    /\ UNCHANGED <<fsVars, cfgVars, mem, h, snap, idem, cand>>

\* A faulty variant: the creating open truncates.
FilePathCreateOptsTruncate == [create |-> TRUE, truncate |-> TRUE]

\* OpenOptions::new().read(true).write(true).create(true)
FilePathCreateOpts == [create |-> TRUE, truncate |-> FALSE]

FilePathOrCreateCreate(a, e) ==
    /\ kind[a] = "FilePath" /\ pc[a] = "p_create"
    /\ LET o == Open(Target, FilePathCreateOpts.create, FilePathCreateOpts.truncate)
       IN IF e = ""
          THEN /\ dir' = o.dir
               /\ disk' = o.disk
               /\ Returns(a, Ret("from_path_or_create", TRUE, "", <<>>, FALSE))
               /\ Constructed(a, o.disk[o.ino])
          ELSE /\ Fails(a, "from_path_or_create", e)
               /\ pc' = [pc EXCEPT ![a] = "new"]
               /\ UNCHANGED <<dir, disk, last, nops, pathBuf>>
    /\ ctor' = Tr("ctor", [ctor EXCEPT ![a].create = TRUE], ctor)
    /\ UNCHANGED <<synced, cfgVars, mem, h, snap, idem, pre, cand>>

\* The FilePath is discarded: it holds no handle.
FilePathDrop(a) ==
    /\ kind[a] = "FilePath" /\ pc[a] = "idle" /\ CanStart(a) /\ "drop" \in may[a]
    /\ Forgotten(a)
    /\ UNCHANGED <<fsVars, cfgVars, mem, h, data, off, buffer>>

Writing(w) == kind[w] = "FilePath" /\ pc[w] \in {"p_write", "p_sync", "p_rename"}

\* The complete contents a read that opens the target now may return: what the target
\* held when the writes in flight began (none of them has renamed yet), or what it holds
\* when no write is in flight.
Candidates ==
    LET ws == {w \in Actors : Writing(w)}
    IN IF ws = {} THEN {Content(Target)} ELSE {pre[w].content : w \in ws}

\* A faulty variant: the read opens the path as the constructor's second open does.
FilePathReadOptsCreate == [create |-> TRUE, truncate |-> FALSE]

\* OpenOptions::new().read(true)
FilePathReadOpts == [create |-> FALSE, truncate |-> FALSE]

FilePathReadOpen(a, e) ==
    /\ kind[a] = "FilePath" /\ pc[a] = "idle" /\ CanStart(a) /\ "read" \in may[a]
    /\ LET o == Open(Target, FilePathReadOpts.create, FilePathReadOpts.truncate)
           err == IF e # "" THEN e ELSE o.err
       IN IF err = ""
          THEN /\ h' = [h EXCEPT ![a] = [ino |-> o.ino, pos |-> 0]]
               /\ dir' = o.dir
               /\ disk' = o.disk
               /\ pc' = [pc EXCEPT ![a] = "p_read"]
               /\ cand' = Tr("cand", [cand EXCEPT ![a] = [set |-> Candidates, torn |-> FALSE]], cand)
               /\ GoesOn(a)
               /\ UNCHANGED <<data, off, buffer, pathBuf>>
          ELSE /\ Fails(a, "read", err)
               /\ pathBuf' = PathRead(a, FALSE, <<>>)
               /\ UNCHANGED <<h, pc, cand, dir, disk>>
    /\ Begins(a)
    /\ NotAWrite(a)
    /\ UNCHANGED <<synced, cfgVars, mem, last>>

\* One read(2) of read_to_end; the handle is closed when read returns.
FilePathReadToEnd(a, e) ==
    /\ kind[a] = "FilePath" /\ pc[a] = "p_read"
    /\ LET c == disk[h[a].ino]
           left == Left(c, h[a].pos)
       IN IF e # "" \/ left = 0
          THEN /\ Returns(a, IF e # "" THEN Ret("read", FALSE, e, <<>>, FALSE)
                             ELSE Ret("read", TRUE, "", buffer[a], FALSE))
               /\ pc' = [pc EXCEPT ![a] = "idle"]
               /\ h' = [h EXCEPT ![a] = NoHandle]
               /\ disk' = Reclaim(disk, dir, h')
               /\ synced' = Tr("synced", synced \cap Refs(dir, h'), synced)
               /\ cand' = Tr("cand", [cand EXCEPT ![a] =
                                [set |-> {}, torn |-> e = "" /\ buffer[a] \notin cand[a].set]], cand)
               /\ pathBuf' = PathRead(a, e = "", buffer[a])
          ELSE \E n \in 1..left :
               /\ buffer' = [buffer EXCEPT ![a] = @ \o Chunk(c, h[a].pos, n)]
               /\ h' = [h EXCEPT ![a].pos = @ + n]
               /\ UNCHANGED <<ret, pc, disk, synced, data, off, cand, pathBuf>>
    /\ UNCHANGED <<dir, cfgVars, mem, last, snap, idem, pre, ctor, nops>>

\* A faulty variant: the temporary file is opened without truncate.
FilePathTmpOptsKeep == [create |-> TRUE, truncate |-> FALSE]

\* OpenOptions::new().write(true).create(true).truncate(true)
FilePathTmpOpts == [create |-> TRUE, truncate |-> TRUE]

\* OpenOptions::new().write(true).create(true).truncate(true).open(&tmp_name)
FilePathWriteOpen(a, b, e) ==
    /\ kind[a] = "FilePath" /\ pc[a] = "idle" /\ CanStart(a) /\ "write" \in may[a]
    /\ LET o == Open(TmpName(Target), FilePathTmpOpts.create, FilePathTmpOpts.truncate)
       IN IF e = ""
          THEN /\ h' = [h EXCEPT ![a] = [ino |-> o.ino, pos |-> 0]]
               /\ dir' = o.dir
               /\ disk' = o.disk
               /\ synced' = Tr("synced", synced \ {o.ino}, synced)
               /\ pc' = [pc EXCEPT ![a] = IF Len(b) = 0 THEN "p_sync" ELSE "p_write"]
               /\ cand' = Tr("cand", [cand EXCEPT ![a] = NoCand], cand)
               /\ data' = [data EXCEPT ![a] = b]
               /\ GoesOn(a)
               /\ UNCHANGED <<off, buffer, snap, last>>
          ELSE /\ WriteFails(a, e)
               /\ UNCHANGED <<h, dir, disk, synced, pc, cand>>
    /\ idem' = [idem EXCEPT ![a] = "none"]
    /\ Begins(a)
    /\ pathBuf' = NoPathBuf
    /\ UNCHANGED <<cfgVars, mem>>

\* One write(2) of write_all on the temporary file; an error closes the handle.
FilePathWriteAll(a, e) ==
    /\ kind[a] = "FilePath" /\ pc[a] = "p_write"
    /\ IF e = ""
       THEN \E n \in 1..(Len(data[a]) - off[a]) :
            /\ disk' = [disk EXCEPT ![h[a].ino] = WriteAt(@, h[a].pos, Chunk(data[a], off[a], n))]
            /\ synced' = Tr("synced", synced \ {h[a].ino}, synced)
            /\ h' = [h EXCEPT ![a].pos = @ + n]
            /\ off' = [off EXCEPT ![a] = @ + n]
            /\ pc' = [pc EXCEPT ![a] = IF off[a] + n = Len(data[a]) THEN "p_sync" ELSE "p_write"]
            /\ UNCHANGED <<ret, data, buffer, last, snap, idem>>
       ELSE /\ WriteFails(a, e)
            /\ pc' = [pc EXCEPT ![a] = "idle"]
            /\ h' = [h EXCEPT ![a] = NoHandle]
            /\ disk' = Reclaim(disk, dir, h')
            /\ synced' = Tr("synced", synced \cap Refs(dir, h'), synced)
    /\ UNCHANGED <<dir, cfgVars, mem, pre, ctor, cand, pathBuf, nops>>

\* f.sync_all().await?; drop(f);
FilePathWriteSync(a, e) ==
    /\ kind[a] = "FilePath" /\ pc[a] = "p_sync"
    /\ h' = [h EXCEPT ![a] = NoHandle]
    /\ disk' = Reclaim(disk, dir, h')
    /\ IF e = ""
       THEN /\ synced' = Tr("synced", SyncAll(synced, h[a].ino) \cap Refs(dir, h'), synced)
            /\ pc' = [pc EXCEPT ![a] = "p_rename"]
            /\ UNCHANGED <<ret, data, off, buffer, last, snap, idem>>
       ELSE /\ synced' = Tr("synced", synced \cap Refs(dir, h'), synced)
            /\ WriteFails(a, e)
            /\ pc' = [pc EXCEPT ![a] = "idle"]
    /\ UNCHANGED <<dir, cfgVars, mem, pre, ctor, cand, pathBuf, nops>>

\* tokio::fs::rename(tmp_name, &self.0).await?
FilePathWriteRename(a, e) ==
    /\ kind[a] = "FilePath" /\ pc[a] = "p_rename"
    /\ LET tmp == TmpName(Target)
           err == IF e # "" THEN e ELSE IF dir[tmp] = NoIno THEN "NotFound" ELSE ""
       IN IF err = ""
          THEN /\ dir' = Rename(dir, tmp, Target)
               /\ disk' = Reclaim(disk, dir', h)
               /\ synced' = Tr("synced", synced \cap Refs(dir', h), synced)
               /\ Wrote(a, data[a], mem, dir', disk', h)
               /\ pathBuf' = PathWrote(data[a], FALSE)
               /\ pre' = [pre EXCEPT ![a] = [NoPre EXCEPT !.orphan = pre[a].orphan]]
          ELSE /\ WriteFails(a, err)
               /\ pre' = Tr("pre", [pre EXCEPT ![a].renamed = TRUE], pre)
               /\ UNCHANGED <<dir, disk, synced, pathBuf>>
    /\ pc' = [pc EXCEPT ![a] = "idle"]
    /\ UNCHANGED <<cfgVars, mem, h, ctor, cand, nops>>

\* ------------------------------------------------------------ interruption
\* The process stops at an await of the call in flight: the call never returns, its
\* handles are closed, its instance is gone.  ret records where it stopped.
Interrupt(a) ==
    /\ ~Quiet(a)
    /\ ret' = [ret EXCEPT ![a] = Ret("interrupted", FALSE, pc[a], data[a], FALSE)]
    /\ pc' = [pc EXCEPT ![a] = "new"]
    /\ h' = [h EXCEPT ![a] = NoHandle]
    /\ disk' = Reclaim(disk, dir, h')
    /\ synced' = Tr("synced", synced \cap Refs(dir, h'), synced)
    /\ data' = [data EXCEPT ![a] = <<>>]
    /\ off' = [off EXCEPT ![a] = 0]
    /\ buffer' = [buffer EXCEPT ![a] = <<>>]
    /\ last' = [last EXCEPT ![a] = <<>>]
    /\ snap' = [snap EXCEPT ![a] = NoSnap]
    /\ idem' = [idem EXCEPT ![a] = "none"]
    /\ cand' = [cand EXCEPT ![a] = NoCand]
    /\ nops' = [nops EXCEPT ![a] = 0]
    /\ pathBuf' = [pathBuf EXCEPT !.fresh = @ \ {a}]
    /\ UNCHANGED <<dir, cfgVars, mem, pre, ctor>>

\* --------------------------------------------------------- specifications
AllOps == {"from_path", "or_create", "read", "write", "take", "drop"}

InitLocal ==
    /\ synced = {}
    /\ mem = [a \in Actors |-> <<>>]
    /\ h = [a \in Actors |-> NoHandle]
    /\ data = [a \in Actors |-> <<>>]
    /\ off = [a \in Actors |-> 0]
    /\ buffer = [a \in Actors |-> <<>>]
    /\ ret = [a \in Actors |-> NoRet]
    /\ last = [a \in Actors |-> <<>>]
    /\ snap = [a \in Actors |-> NoSnap]
    /\ idem = [a \in Actors |-> "none"]
    /\ pre = [a \in Actors |-> NoPre]
    /\ ctor = [a \in Actors |-> NoCtor]
    /\ cand = [a \in Actors |-> NoCand]
    /\ pathBuf = NoPathBuf
    /\ nops = [a \in Actors |-> 0]

\* The path names no file, or a file with some content; there is no temporary file.
InitDisk ==
    \/ /\ dir = [p \in Paths |-> NoIno]
       /\ disk = [i \in Inodes |-> <<>>]
    \/ \E c \in Bufs :
       /\ dir = [p \in Paths |-> IF p = Target THEN 1 ELSE NoIno]
       /\ disk = [i \in Inodes |-> IF i = 1 THEN c ELSE <<>>]

\* One instance of any backend, used by one caller; no system call fails.
InitSolo ==
    /\ InitLocal
    /\ InitDisk
    /\ \E k \in {"Memory", "File", "FilePath"} : kind = [a \in Actors |-> IF a = 1 THEN k ELSE "none"]
    /\ (kind[1] = "Memory" => dir[Target] = NoIno)
    /\ serial = TRUE
    /\ faulty = FALSE
    /\ track = {"last", "snap", "nops"}
    /\ may = [a \in Actors |-> AllOps \ {"drop"}]
    /\ pc = [a \in Actors |-> "new"]

MemoryStep(a) ==
    \/ MemoryNew(a)
    \/ \E b \in Bufs : MemoryFrom(a, b)
    \/ MemoryTake(a)
    \/ MemoryRead(a)
    \/ \E b \in Bufs : MemoryWrite(a, b)

FileCtorStep(a) ==
    \/ \E e \in Errs : FileFromPath(a, e)
    \/ \E e \in Errs : FileOrCreateOpen(a, e)
    \/ \E e \in Errs : FileOrCreateCreate(a, e)

FileOpStep(a) ==
    \/ \E e \in Errs : FileReadSeek(a, e)
    \/ \E e \in Errs : FileReadToEnd(a, e)
    \/ \E b \in Bufs, e \in Errs : FileWriteSeek(a, b, e)
    \/ \E e \in Errs : FileWriteSetLen(a, e)
    \/ \E e \in Errs : FileWriteAll(a, e)
    \/ \E e \in Errs : FileWriteSync(a, e)

FilePathCtorStep(a) ==
    \/ \E e \in Errs : FilePathFromPath(a, e)
    \/ \E e \in Errs : FilePathOrCreateOpen(a, e)
    \/ \E e \in Errs : FilePathOrCreateCreate(a, e)

FilePathReadStep(a) ==
    \/ \E e \in Errs : FilePathReadOpen(a, e)
    \/ \E e \in Errs : FilePathReadToEnd(a, e)

FilePathWriteStep(a) ==
    \/ \E b \in Bufs, e \in Errs : FilePathWriteOpen(a, b, e)
    \/ \E e \in Errs : FilePathWriteAll(a, e)
    \/ \E e \in Errs : FilePathWriteSync(a, e)
    \/ \E e \in Errs : FilePathWriteRename(a, e)

NextSolo ==
    \E a \in Actors :
        \/ MemoryStep(a)
        \/ FileCtorStep(a) \/ FileOpStep(a)
        \/ FilePathCtorStep(a) \/ FilePathReadStep(a) \/ FilePathWriteStep(a)

SpecSolo == InitSolo /\ [][NextSolo]_vars

\* File and FilePath instances on one path, constructed and discarded at will; the
\* callers never overlap two calls; no system call fails.
InitSeq ==
    /\ InitLocal
    /\ InitDisk
    /\ \E ks \in {<<"File", "File">>, <<"File", "FilePath">>, <<"FilePath", "FilePath">>} :
          kind = [a \in Actors |-> IF a \in {1, 2} THEN ks[a] ELSE "none"]
    /\ serial = TRUE
    /\ faulty = FALSE
    /\ track = {"pathBuf"}
    /\ may = [a \in Actors |-> AllOps \ {"take"}]
    /\ pc = [a \in Actors |-> "new"]

NextSeq ==
    \E a \in Actors :
        \/ FileCtorStep(a) \/ FileOpStep(a) \/ FileDrop(a)
        \/ FilePathCtorStep(a) \/ FilePathReadStep(a) \/ FilePathWriteStep(a) \/ FilePathDrop(a)

SpecSeq == InitSeq /\ [][NextSeq]_vars

\* Two FilePath instances constructed on an existing file (actors 1 and 2), their calls
\* interleaved at every await; no system call fails.
InitPair(ops1, ops2, tracked) ==
    /\ track = tracked
    /\ InitLocal
    /\ \E c \in Bufs :
       /\ dir = [p \in Paths |-> IF p = Target THEN 1 ELSE NoIno]
       /\ disk = [i \in Inodes |-> IF i = 1 THEN c ELSE <<>>]
    /\ kind = [a \in Actors |-> IF a \in {1, 2} THEN "FilePath" ELSE "none"]
    /\ serial = FALSE
    /\ faulty = FALSE
    /\ may = [a \in Actors |-> IF a = 1 THEN ops1 ELSE ops2]
    /\ pc = [a \in Actors |-> IF a \in {1, 2} THEN "idle" ELSE "new"]

\* Actor 1 writes, actor 2 reads.
InitRW == InitPair({"write"}, {"read"}, {"cand", "pre"})

NextRW == \E a \in Actors : FilePathReadStep(a) \/ FilePathWriteStep(a)

SpecRW == InitRW /\ [][NextRW]_vars

\* Actors 1 and 2 both write, once.
InitRace == InitPair({"write", "once"}, {"write", "once"}, {"nops", "rets"})

NextRace == \E a \in Actors : FilePathWriteStep(a)

SpecRace == InitRace /\ [][NextRace]_vars

\* One File or FilePath instance; any system call may fail, and the process may stop at
\* any await and start again.
InitFault ==
    /\ InitLocal
    /\ InitDisk
    /\ \E k \in {"File", "FilePath"} : kind = [a \in Actors |-> IF a = 1 THEN k ELSE "none"]
    /\ serial = TRUE
    /\ faulty = TRUE
    /\ track = {"pre", "ctor", "nops", "synced", "orphan"}
    /\ may = [a \in Actors |-> AllOps \ {"take", "drop"}]
    /\ pc = [a \in Actors |-> "new"]

NextFault ==
    \E a \in Actors :
        \/ FileCtorStep(a) \/ FileOpStep(a)
        \/ FilePathCtorStep(a) \/ FilePathReadStep(a) \/ FilePathWriteStep(a)
        \/ Interrupt(a)

SpecFault == InitFault /\ [][NextFault]_vars

\* Another process removes the target between two calls; a File keeps its handle on the
\* removed file.
Unlink ==
    /\ \A a \in Actors : Quiet(a)
    /\ Exists(Target)
    /\ dir' = [dir EXCEPT ![Target] = NoIno]
    /\ disk' = Reclaim(disk, dir', h)
    /\ synced' = Tr("synced", synced \cap Refs(dir', h), synced)
    /\ ret' = [a \in Actors |-> NoRet]
    /\ UNCHANGED <<cfgVars, pc, mem, h, data, off, buffer, last, snap, idem, pre, ctor, cand,
                   pathBuf, nops>>

\* One File or FilePath instance whose system calls may fail, on a path that another
\* process may remove.
NextGone == NextFault \/ Unlink

SpecGone == InitFault /\ [][NextGone]_vars

\* Two instances on one path (actors 1 and 2), each File or FilePath, constructed with
\* their opens interleaved at every await; actor 2 goes on to read and write while actor 1
\* may still be in its constructor; no system call fails.
InitCtor ==
    /\ InitLocal
    /\ InitDisk
    /\ \E ks \in {"File", "FilePath"} \X {"File", "FilePath"} :
          kind = [a \in Actors |-> IF a \in {1, 2} THEN ks[a] ELSE "none"]
    /\ serial = FALSE
    /\ faulty = FALSE
    /\ track = {"pre", "nops", "rets"}
    /\ may = [a \in Actors |-> IF a = 2 THEN {"from_path", "or_create", "read", "write"}
                                ELSE {"from_path", "or_create"}]
    /\ pc = [a \in Actors |-> "new"]

NextCtor ==
    \E a \in Actors :
        \/ FileCtorStep(a) \/ FileOpStep(a)
        \/ FilePathCtorStep(a) \/ FilePathReadStep(a) \/ FilePathWriteStep(a)

SpecCtor == InitCtor /\ [][NextCtor]_vars

\* ----------------------------------------------------------------- claims
ReadOk(a) == ret[a].op = "read" /\ ret[a].ok

WriteOk(a) == ret[a].op = "write" /\ ret[a].ok

InWrite(a) == pc[a] \in {"p_write", "p_sync", "p_rename"}

\* C1: on one instance of any backend, with no failure and no other actor, every read()
\* returns exactly the buffer of the most recent successful write, or the initial content
\* of the medium if there was none.
C1_RoundTrip == \A a \in Actors : ReadOk(a) => ret[a].val = last[a]

\* A File read returns a one-byte buffer written over a longer content, after an earlier
\* operation left the cursor at the end of the file.
C1_Witness ==
    \E a \in Actors :
        /\ kind[a] = "File" /\ ReadOk(a) /\ nops[a] = 2
        /\ Len(ret[a].val) = 1 /\ ret[a].val = last[a]
        /\ h[a].pos = 1

\* C2 as stated: whenever a write(B) of a File or FilePath returns success, the file the
\* path names holds exactly B, and the first read of an instance constructed afterwards
\* returns B, whatever non-overlapping operations of other instances came before.
C2_PathHoldsWritten ==
    /\ \A a \in Actors : WriteOk(a) => Exists(Target) /\ Content(Target) = ret[a].val
    /\ pathBuf.verdict \in {"none", "same"}

\* The handle of a File is on the file the path names now.
Live(a) == h[a].ino = dir[Target]

\* C2, amended: the same, for the writes of a FilePath and for the writes of a File whose
\* handle is on the file the path names, that is, no rename has replaced that file since
\* the File was opened.
C2_PathHoldsWrittenLive ==
    /\ \A a \in Actors :
          WriteOk(a) /\ (kind[a] = "FilePath" \/ Live(a)) =>
              Exists(Target) /\ Content(Target) = ret[a].val
    /\ pathBuf.verdict \in {"none", "same", "differs_stale"}

\* A File constructed after a write, on a file that a rename put in place, has read the
\* written buffer.
C2_Witness ==
    \E a \in Actors :
        /\ kind[a] = "File" /\ ReadOk(a) /\ Live(a) /\ dir[Target] # 1
        /\ pathBuf.verdict = "same" /\ ~pathBuf.stale
        /\ ret[a].val = pathBuf.buf /\ Len(pathBuf.buf) = MaxLen

\* C3: a read() of one FilePath, interleaved at any step with the writes of another on the
\* same path, never fails and returns a complete content: the one the path had before the
\* write in flight when the read opened the target (the old one), or, once that write has
\* renamed, its buffer (the new one).
C3_AtomicVisibility ==
    \A a \in Actors :
        kind[a] = "FilePath" => ~cand[a].torn /\ (ret[a].op = "read" => ret[a].ok)

\* The read returned the old content after the writer had written and synced all of a
\* different buffer to the temporary file.
C3_Witness ==
    \E r, w \in Actors :
        /\ ReadOk(r) /\ pc[w] = "p_rename"
        /\ ret[r].val = pre[w].content /\ ret[r].val # data[w]
        /\ ret[r].val # <<>> /\ data[w] # <<>>

\* C4: a FilePath write that fails before its rename returns the error of the failing
\* step and leaves the target's existence and content as they were when it began.
C4_Rollback ==
    \A a \in Actors :
        kind[a] = "FilePath" /\ ret[a].op = "write" /\ ~ret[a].ok /\ ~pre[a].renamed =>
            /\ ret[a].err = "Other" /\ pc[a] = "idle"
            /\ Exists(Target) = pre[a].exists
            /\ Exists(Target) => Content(Target) = pre[a].content

\* The write failed after the temporary file was created: the target holds its content
\* and the temporary file is left behind with another.
C4_Witness ==
    \E a \in Actors :
        /\ kind[a] = "FilePath" /\ ret[a].op = "write" /\ ~ret[a].ok /\ ~pre[a].renamed
        /\ Exists(Target) /\ Content(Target) = pre[a].content /\ Content(Target) # <<>>
        /\ Exists(TmpName(Target)) /\ Content(TmpName(Target)) # Content(Target)
        /\ Content(TmpName(Target)) # <<>>

\* The write of a FilePath stopped, or is, between its sync and its rename.
AtRename(a) ==
    \/ pc[a] = "p_rename"
    \/ ret[a].op = "interrupted" /\ ret[a].err = "p_rename"

\* C5: when the process is interrupted in a FilePath write after the sync and before the
\* rename, the target is what it was when the write began: the same complete content, or
\* no file.
C5_CrashAtomic ==
    \A a \in Actors :
        kind[a] = "FilePath" /\ AtRename(a) =>
            /\ Exists(Target) = pre[a].exists
            /\ Exists(Target) => Content(Target) = pre[a].content
            /\ pc[a] = "p_rename" => Content(TmpName(Target)) = data[a]

C5_Witness ==
    \E a \in Actors :
        /\ kind[a] = "FilePath" /\ ret[a].op = "interrupted" /\ ret[a].err = "p_rename"
        /\ pre[a].exists /\ Content(Target) = pre[a].content /\ Len(Content(Target)) = MaxLen
        /\ Content(TmpName(Target)) = ret[a].val /\ ret[a].val # Content(Target)

\* C6: with one FilePath instance whose writes all succeed, the temporary file exists only
\* between its creation and the rename of the write in progress; after a successful write
\* it does not exist.
C6_NoOrphan ==
    \A a \in Actors :
        kind[a] = "FilePath" =>
            /\ (Exists(TmpName(Target)) => InWrite(a))
            /\ (WriteOk(a) => ~Exists(TmpName(Target)) /\ Exists(Target))

C6_Witness ==
    \E a \in Actors :
        /\ kind[a] = "FilePath" /\ WriteOk(a) /\ nops[a] = 2
        /\ ~Exists(TmpName(Target)) /\ Content(Target) = last[a] /\ last[a] # <<>>

CtorOk(a) == ret[a].op = "from_path_or_create" /\ ret[a].ok

\* C7: a from_path_or_create that succeeds returns the flag true exactly when the path
\* named a file before the call; that file's content is unchanged; a file it creates is
\* empty.
C7_ExistenceFlag ==
    \A a \in Actors :
        CtorOk(a) =>
            /\ ret[a].flag = pre[a].exists
            /\ Exists(Target)
            /\ Content(Target) = pre[a].content

\* C8: from_path_or_create tries to create only after its first open failed with
\* NotFound; after any other failure it returns that failure.
C8_CreateOnlyOnNotFound ==
    \A a \in Actors :
        /\ ctor[a].create => ctor[a].first = "NotFound"
        /\ ctor[a].first = "Other" =>
               ret[a].op = "from_path_or_create" /\ ~ret[a].ok /\ ret[a].err = "Other"

BothWrote == \A a \in {1, 2} : ret[a].op = "write"

\* C9: when write(A) and write(B) of two FilePath instances on one path have both
\* returned, both have succeeded and the target holds A or B.
C9_LastRenameWins ==
    BothWrote =>
        /\ ret[1].ok /\ ret[2].ok
        /\ Content(Target) \in {ret[1].val, ret[2].val}

\* C10: a write(B) that follows a successful write(B) on the same instance leaves what the
\* first left: the same content for read() and, for FilePath, the same files on disk.
C10_Idempotent == \A a \in Actors : idem[a] # "differs"

C10_Witness ==
    \E a \in Actors :
        /\ kind[a] = "FilePath" /\ idem[a] = "same" /\ WriteOk(a)
        /\ snap[a].obs = <<snap[a].data, {Target}>> /\ snap[a].data # <<>>

\* C11: take() of a Memory returns the bytes a read() would have returned at that moment
\* (the last written or the imported buffer, or none) and leaves the backend empty, as
\* Memory::new() makes it, so that a read() after it returns the empty buffer; read()
\* returns those bytes and leaves the stored content as it was.
C11_TakeExtracts ==
    /\ [](\A a \in Actors : kind[a] = "Memory" /\ ReadOk(a) => ret[a].val = last[a])
    /\ [][\A a \in Actors :
            /\ MemoryTake(a) => ret'[a].val = last[a] /\ mem'[a] = <<>> /\ last'[a] = <<>>
            /\ MemoryRead(a) => ret'[a].val = last[a] /\ mem'[a] = mem[a]]_vars

\* take() has returned a buffer of full length that was written over an imported one.
C11_Witness ==
    \E a \in Actors :
        /\ kind[a] = "Memory" /\ ret[a].op = "take" /\ Len(ret[a].val) = MaxLen
        /\ mem[a] = <<>> /\ nops[a] = 2

\* C12: a FilePath write reaches its rename only with the temporary file closed, holding
\* the whole buffer and synced; the name of the target changes only by that rename (or by
\* a constructor creating an empty file where there was none), and the file the target
\* names is never modified, so the target always names the old file or a complete synced
\* buffer.
C12_SyncBeforeVisible ==
    /\ [](\A a \in Actors :
             kind[a] = "FilePath" /\ pc[a] = "p_rename" =>
                 /\ h[a] = NoHandle /\ Exists(TmpName(Target))
                 /\ Content(TmpName(Target)) = data[a]
                 /\ dir[TmpName(Target)] \in synced)
    /\ [][\A a \in Actors :
            kind[a] = "FilePath" =>
                /\ dir'[Target] # dir[Target] =>
                       \/ /\ pc[a] = "p_rename" /\ dir'[Target] = dir[TmpName(Target)]
                          /\ dir'[Target] \in synced' /\ disk'[dir'[Target]] = data[a]
                       \/ /\ pc[a] = "p_create" /\ ~Exists(Target)
                          /\ disk'[dir'[Target]] = <<>>
                /\ Exists(Target) /\ dir'[Target] = dir[Target] =>
                       disk'[dir[Target]] = disk[dir[Target]]]_vars

\* A write has returned success over an existing file: the target names another file
\* than before, which is synced and holds the buffer.
C12_Witness ==
    \E a \in Actors :
        /\ kind[a] = "FilePath" /\ WriteOk(a) /\ dir[Target] # 1
        /\ dir[Target] \in synced /\ Content(Target) = ret[a].val
        /\ Len(ret[a].val) = MaxLen

\* The steps of File::write in the order the code takes them.
FileWriteOrder ==
    {<<"idle", "f_setlen">>, <<"f_setlen", "f_write">>, <<"f_setlen", "f_sync">>,
     <<"f_write", "f_sync">>}

InFileWrite(a) == pc[a] \in {"f_setlen", "f_write", "f_sync"}

WriteErr(a) == ret[a].op = "write" /\ ~ret[a].ok

\* C13: File::write seeks to 0, truncates, writes the whole buffer and syncs, in that
\* order and on one handle; it returns success only with the file synced and holding the
\* buffer; a step that fails returns its error at once and no later step runs.
C13_FileWriteOrder ==
    /\ [](\A a \in Actors :
             kind[a] = "File" =>
                 /\ pc[a] = "f_setlen" => h[a].pos = 0
                 /\ pc[a] = "f_write" => disk[h[a].ino] = SubSeq(data[a], 1, off[a])
                 /\ pc[a] = "f_sync" => disk[h[a].ino] = data[a]
                 /\ WriteOk(a) => h[a].ino \in synced /\ disk[h[a].ino] = ret[a].val)
    /\ [][\A a \in Actors :
            kind[a] = "File" /\ pc'[a] # "new" =>
                /\ InFileWrite(a) \/ InFileWrite(a)' =>
                       /\ h'[a].ino = h[a].ino
                       /\ pc'[a] \in {pc[a], "idle"} \/ <<pc[a], pc'[a]>> \in FileWriteOrder
                /\ pc[a] = "f_sync" /\ pc'[a] = "idle" /\ ret'[a].ok =>
                       h[a].ino \in synced' /\ ret'[a].op = "write"
                /\ WriteErr(a)' /\ ret'[a] # ret[a] =>
                       /\ pc'[a] = "idle" /\ ret'[a].err = "Other"
                       /\ disk' = disk /\ h' = h /\ synced' = synced]_vars

\* A File write has returned success for a buffer of full length after an earlier
\* operation: the file is synced and holds the buffer.
C13_Witness ==
    \E a \in Actors :
        /\ kind[a] = "File" /\ WriteOk(a) /\ nops[a] = 2
        /\ Len(ret[a].val) = MaxLen /\ h[a].ino \in synced /\ Content(Target) = ret[a].val

IsPrefix(p, b) == Len(p) <= Len(b) /\ p = SubSeq(b, 1, Len(p))

\* C14: when File::write(New) fails at the seek or at the truncate, the file holds what it
\* held before the call; when it fails later, the file holds a prefix of New (none, some or
\* all of its bytes) and the old content is not put back; a read returns what the file
\* holds.
C14_NoRollback ==
    /\ [](\A a \in Actors : kind[a] = "File" /\ ReadOk(a) => ret[a].val = disk[h[a].ino])
    /\ [][\A a \in Actors :
            kind[a] = "File" /\ WriteErr(a)' /\ ret'[a] # ret[a] =>
                /\ pc[a] \in {"idle", "f_setlen"} => disk'[h[a].ino] = pre'[a].content
                /\ pc[a] \in {"f_write", "f_sync"} => IsPrefix(disk'[h[a].ino], ret'[a].val)]_vars

\* A File write has failed half way: the file holds one byte of the new buffer, which is
\* neither the old content nor the new.
C14_Witness ==
    \E a \in Actors :
        /\ kind[a] = "File" /\ WriteErr(a)
        /\ Len(ret[a].val) = MaxLen /\ Len(Content(Target)) = 1
        /\ IsPrefix(Content(Target), ret[a].val)
        /\ pre[a].content # <<>> /\ Content(Target) # pre[a].content

\* A step of a read() of actor a: its first system call, a later one, or its return.
ReadStep(a) ==
    \/ pc[a] \in {"f_read", "p_read"}
    \/ pc'[a] \in {"f_read", "p_read"}
    \/ ret'[a].op = "read" /\ ret'[a] # ret[a]

\* C15: no step of File::read or FilePath::read, successful or failed, changes which files
\* the target and the temporary name refer to or what those files hold; a FilePath read of
\* a path that names no file returns NotFound and the path still names no file.
C15_ReadNoEffect ==
    /\ [][\A a \in Actors :
            ReadStep(a) =>
                \A p \in Paths :
                    /\ dir'[p] = dir[p]
                    /\ Exists(p) => disk'[dir[p]] = disk[dir[p]]]_vars
    /\ [][\A a \in Actors :
            kind[a] = "FilePath" /\ pc[a] = "idle" /\ ReadStep(a) /\ ~Exists(Target) =>
                ret'[a] = Ret("read", FALSE, "NotFound", <<>>, FALSE) \/ ret'[a].err = "Other"]_vars

\* A FilePath read has failed with NotFound, the temporary file of an earlier failed write
\* is still there with its content, and the target is still missing.
C15_Witness ==
    \E a \in Actors :
        /\ kind[a] = "FilePath" /\ ret[a].op = "read" /\ ret[a].err = "NotFound"
        /\ ~Exists(Target)
        /\ Exists(TmpName(Target)) /\ Content(TmpName(Target)) # <<>>

Fresh(a) == pc[a] = "idle" /\ nops[a] = 0

\* C16: whatever another instance on the path is doing, no step of a FilePath constructor
\* changes an existing target or the temporary file; a constructor makes the target only
\* where there is none, and makes it empty; a constructor that returns an instance leaves
\* the target existing; and when both instances are constructed and nothing else has run,
\* the target holds what it held before, or nothing if it did not exist.
C16_CtorSafe ==
    /\ [](\A a \in Actors : kind[a] = "FilePath" /\ pc[a] = "idle" => Exists(Target))
    /\ []((\A a \in {1, 2} : Fresh(a)) =>
             \A a \in {1, 2} : Exists(Target) /\ Content(Target) = pre[a].content)
    /\ [][\A a \in Actors :
            kind[a] = "FilePath" /\ FilePathCtorStep(a) =>
                /\ dir'[TmpName(Target)] = dir[TmpName(Target)]
                /\ Exists(Target) =>
                       dir'[Target] = dir[Target] /\ disk'[dir[Target]] = disk[dir[Target]]
                /\ ~Exists(Target) /\ dir'[Target] # NoIno =>
                       pc[a] = "p_create" /\ disk'[dir'[Target]] = <<>>]_vars

\* A FilePath constructor that found no file has made its second open after the other
\* instance created the file and wrote to it: the written content is in place.
C16_Witness ==
    \E a \in Actors :
        /\ kind[a] = "FilePath" /\ ret[a].op = "from_path_or_create" /\ ret[a].ok
        /\ ~ret[a].flag /\ ~pre[a].exists
        /\ Len(Content(Target)) = MaxLen

\* C17: when two from_path_or_create calls on a path that named no file have both
\* returned an instance, one of them has returned the flag false and the other true.
C17_OneCreator ==
    CtorOk(1) /\ CtorOk(2) /\ (~pre[1].exists \/ ~pre[2].exists) =>
        ret[1].flag # ret[2].flag

\* C18: a successful write(B) of the only FilePath writer that began with a temporary
\* file left by an earlier failed or interrupted write leaves the target holding exactly B
\* and no temporary file.
C18_OrphanRecovery ==
    \A a \in Actors :
        kind[a] = "FilePath" /\ WriteOk(a) /\ pre[a].orphan.there =>
            /\ Exists(Target) /\ Content(Target) = ret[a].val
            /\ ~Exists(TmpName(Target))

\* The write of one byte has succeeded over a temporary file that held a longer content
\* beginning with another byte.
C18_Witness ==
    \E a \in Actors :
        /\ kind[a] = "FilePath" /\ WriteOk(a) /\ pre[a].orphan.there
        /\ Len(pre[a].orphan.content) = MaxLen /\ Len(ret[a].val) = 1
        /\ pre[a].orphan.content[1] # ret[a].val[1]
        /\ Content(Target) = ret[a].val /\ ~Exists(TmpName(Target))

====
